---- MODULE Spec2Model ----
(***************************************************************************)
(* Model of tick_manager_rs: the TickManager coordination loop             *)
(* (src/src/tickmanager/manager.rs), the TickCommand protocol              *)
(* (src/src/tickmanager/tickmanager_handle.rs) and the TickMember proxy    *)
(* (src/src/tick_hook.rs).                                                 *)
(*                                                                         *)
(* Threads: one loop thread for each call of TickManager::start (the first *)
(* call is made by TickManager::new), the thread that owns each TickMember,*)
(* further threads that share a TickMember or hold a clone of it, clients  *)
(* that send commands through the TickManagerHandle directly, and the      *)
(* thread that owns (and drops) the TickManager.  Channels are flume       *)
(* bounded channels: a send blocks while the channel is full and fails     *)
(* once every receiver is gone.                                            *)
(*                                                                         *)
(* MemberInfo.last_tick is written by the loop and never read by any code; *)
(* it is not part of the state below.                                      *)
(***************************************************************************)
EXTENDS Integers, Sequences, FiniteSets, TLC

(* ------------------------------------------------------------------ *)
(* Bounds                                                              *)
(* ------------------------------------------------------------------ *)

\* number of TickMember proxies that client threads may construct
NMembers == 2

\* capacity of the command channel (flume::bounded(10) in the source), scaled
MaxQueue == 2

\* largest speed factor a client passes to Register
MaxSpeed == 2

\* width in bits of main_tick_counter (usize in the source), scaled
CounterBits == 2

\* cadence period in clock units (Speed::get_duration), scaled
Period == 1

\* wait_for_tick calls one proxy performs in the unconstrained specification
MaxCalls == 2

\* speed_factor_counts: the half-speed member performs NRounds calls, the
\* full-speed member 2 * NRounds (6 and 12 in the test)
NRounds == 2

\* nonblocking_slow_member: speed factor of the member that never waits
\* (100 in the test) and calls of the fast member (8 in the test)
SlowFactor == 3

FastCalls == 4

\* calls of TickManager::start on one manager, the one inside new included
MaxLoops == 2

\* further threads that use one proxy (through a shared reference or a clone)
\* and can be inside wait_for_tick at the same time as its owner
MaxSharers == 1

(* ------------------------------------------------------------------ *)
(* Program constants and types                                         *)
(* ------------------------------------------------------------------ *)

\* flume::bounded(1): capacity of a member's reply channel
ReplyCap == 1

Members == 1..NMembers

SpeedFactors == 0..MaxSpeed

MemberStates == {"Finished", "Running", "Hidden"}

CounterModulus == 2 ^ CounterBits

NoId == -1

VARIABLES
    cmdq,               \* command channel: TickCommand values in arrival order
    member_map,         \* InternalMap: MemberID -> [sf, state, sender]
    amount_of_members,  \* AtomicUsize handing out ids
    main_tick_counter,  \* the step counter of each loop thread
    instant_age,        \* Instant::now() - *instant, capped at Period
    loop_pc,            \* position of each loop thread: "unborn" | "drain" |
                        \* "lock_map" | "register" | "lock_instant" | "due" |
                        \* "gate" | "collect" | "send" | "done"
    senders,            \* the Vec<Sender> each loop thread collected for its
                        \* current step
    pending,            \* the command each loop thread has taken and not yet
                        \* carried out
    due_members,        \* the due_members each loop thread computed for its
                        \* current step, until it has gated and collected
    chan,               \* reply channel of each proxy (TickStateReply values)
    pc,                 \* position of each proxy's client thread
    id,                 \* TickMember.id of each proxy
    calls,              \* completed wait_for_tick calls of each proxy
    stale,              \* history: the current wait_for_tick call began with a
                        \* Tick already buffered or already collected for it
    issued,             \* history: ids handed out, in processing order
    mgr,                \* "alive" | "joining" | "dropped": the TickManager value
    elapsed,            \* t0.elapsed() of each proxy's thread, where t0 is the
                        \* Instant it took after its latest return from
                        \* wait_for_tick; capped at Period
    sharers             \* for each proxy, the further threads (sharing it or
                        \* holding a clone of it) that are inside wait_for_tick

vars == <<cmdq, member_map, amount_of_members, main_tick_counter, instant_age,
          loop_pc, senders, pending, due_members, chan, pc, id, calls, stale,
          issued, mgr, elapsed, sharers>>

(* ------------------------------------------------------------------ *)
(* Helpers                                                             *)
(* ------------------------------------------------------------------ *)

Range(s) == {s[k] : k \in 1..Len(s)}

\* every ordering of a finite set, as sequences: the iteration order of a
\* HashMap is unspecified
Orderings(S) ==
    {s \in [1..Cardinality(S) -> S] : \A a, b \in 1..Cardinality(S) : a # b => s[a] # s[b]}

\* TickCommand
CmdRegister(ch, sf) == [type |-> "Register", ch |-> ch, sf |-> sf]

CmdChangeMemberState(mid, st) == [type |-> "ChangeMemberState", id |-> mid, state |-> st]

CmdUnregister(mid) == [type |-> "Unregister", id |-> mid]

CmdShutdown == [type |-> "Shutdown"]

\* TickStateReply
ReplySelfID(mid) == [type |-> "SelfID", id |-> mid]

ReplyTick == [type |-> "Tick"]

\* the command channel is disconnected once every Receiver is gone: the one
\* the TickManager value owns and the clone each running loop thread holds
Disconnected == mgr = "dropped" /\ \A l \in DOMAIN loop_pc : loop_pc[l] \in {"unborn", "done"}

\* the Receiver of proxy i's reply channel has been dropped
ReceiverGone(i) == pc[i] \in {"dropped", "panic_id"}

\* Sender::send on a bounded reply channel: Err at once when the receiver is
\* gone, otherwise blocks until there is room
CanSendReply(i) == ReceiverGone(i) \/ Len(chan[i]) < ReplyCap

SendReply(i, msg) == IF ReceiverGone(i) THEN chan ELSE [chan EXCEPT ![i] = Append(@, msg)]

(* ------------------------------------------------------------------ *)
(* Pure functions of the loop                                          *)
(* ------------------------------------------------------------------ *)

\* Speed::new_frame: last_frame + duration <= Instant::now()
\* a gate on time that is always open
NewFrame_always == TRUE

NewFrame == instant_age >= Period

\* main_tick_counter.wrapping_add(1)
WrapAdd(c) == (c + 1) % CounterModulus

\* the counter after j further steps
RECURSIVE StepAfter(_, _)
StepAfter(c, j) == IF j = 0 THEN c ELSE WrapAdd(StepAfter(c, j - 1))

\* if speed_factor == 0 { 1 } else { speed_factor }
NormalizeSpeed(sf) == IF sf = 0 THEN 1 ELSE sf

NextId_reuse == Cardinality(DOMAIN member_map)

\* amount_of_members.fetch_add(1, SeqCst) returns the previous value
NextId == amount_of_members

DueMembers_all(c) == DOMAIN member_map

\* due_members: ids whose main_tick_counter % sf == 0
DueMembers(c) == {m \in DOMAIN member_map : c % NormalizeSpeed(member_map[m].sf) = 0}

\* matches!(state, Finished | Hidden)
\* a readiness test that every state passes
IsReady_all(st) == TRUE

IsReady(st) == st \in {"Finished", "Hidden"}

AllReady_any(due) == \E m \in due : m \in DOMAIN member_map /\ IsReady(member_map[m].state)

\* all_ready: every id of due_members that still has a record is Finished or
\* Hidden (map.get(&id) returning None counts as ready)
AllReady(due) == \A m \in due : m \in DOMAIN member_map => IsReady(member_map[m].state)

(* ------------------------------------------------------------------ *)
(* Initial state: TickManager::new                                     *)
(* ------------------------------------------------------------------ *)

Init ==
    /\ cmdq = <<>>
    /\ member_map = [m \in {} |-> 0]
    /\ amount_of_members = 0
    /\ main_tick_counter = <<0>>
    /\ instant_age = 0
    /\ loop_pc = <<"drain">>
    /\ senders = << <<>> >>
    /\ pending = <<[type |-> "none"]>>
    /\ due_members = <<{}>>
    /\ chan = [i \in Members |-> <<>>]
    /\ pc = [i \in Members |-> "unborn"]
    /\ id = [i \in Members |-> NoId]
    /\ calls = [i \in Members |-> 0]
    /\ stale = [i \in Members |-> FALSE]
    /\ issued = <<>>
    /\ mgr = "alive"
    /\ elapsed = [i \in Members |-> Period]
    /\ sharers = [i \in Members |-> 0]

(* ------------------------------------------------------------------ *)
(* The clock                                                           *)
(* ------------------------------------------------------------------ *)

\* one unit of time passes on every clock that is below its cap
Later(t) == IF t < Period THEN t + 1 ELSE Period

TimePasses ==
    /\ instant_age < Period \/ \E i \in DOMAIN elapsed : elapsed[i] < Period
    /\ instant_age' = Later(instant_age)
    /\ elapsed' = [i \in DOMAIN elapsed |-> Later(elapsed[i])]
    /\ UNCHANGED <<cmdq, member_map, amount_of_members, main_tick_counter,
                   loop_pc, senders, pending, due_members, chan, pc, id,
                   calls, stale, issued, mgr, sharers>>

(* ------------------------------------------------------------------ *)
(* The coordination loop: the closure spawned by TickManager::start    *)
(* ------------------------------------------------------------------ *)

\* the loop threads: one for each call of start, "unborn" until that call
Loops == DOMAIN loop_pc

\* the thread spawned by the start() call inside TickManager::new
FirstLoop == 1

\* pending[l] of a loop thread that holds no command
NoPending == [type |-> "none"]

\* no other loop thread runs or can still be spawned: nothing else receives
\* from the command channel or locks the registry or the stored instant, so
\* nothing can come between two lines of loop l that this model tells apart
Alone(l) ==
    \A k \in Loops \ {l} :
        loop_pc[k] = "done" \/ (loop_pc[k] = "unborn" /\ mgr # "alive")

\* the locks loop l holds between its steps.  The registry guard of the
\* Register arm is alive while the arm waits in its SelfID send; instant_guard
\* is taken before new_frame is asked and lives to the end of the block that
\* contains the Tick sends; the registry guards inside that block are dropped
\* before the first Tick send
HeldLocks(l) ==
    IF loop_pc[l] = "register" THEN {"member_map"}
    ELSE IF loop_pc[l] \in {"due", "gate", "collect", "send"} THEN {"instant"}
    ELSE {}

\* member_map.lock() and instant.lock() return for loop l
MapLockFree(l) == \A k \in Loops \ {l} : "member_map" \notin HeldLocks(k)

InstantLockFree(l) == \A k \in Loops \ {l} : "instant" \notin HeldLocks(k)

\* loop l has a command in hand and is at member_map.lock(): try_recv
\* returned the command before, or (no other loop thread being there to come
\* in between) returns it now
Taking(l) ==
    \/ loop_pc[l] = "drain" /\ cmdq # <<>> /\ Alone(l)
    \/ loop_pc[l] = "lock_map"

\* that command, and the queue once it is taken
Cmd(l) == IF loop_pc[l] = "lock_map" THEN pending[l] ELSE Head(cmdq)

Rest(l) == IF loop_pc[l] = "lock_map" THEN cmdq ELSE Tail(cmdq)

\* try_recv returned Register, ChangeMemberState or Unregister while another
\* loop thread is there: the command has left the queue and the thread is
\* about to call member_map.lock(), which another thread may win first
LoopTake(l) ==
    /\ loop_pc[l] = "drain"
    /\ cmdq # <<>>
    /\ Head(cmdq).type # "Shutdown"
    /\ ~Alone(l)
    /\ pending' = [pending EXCEPT ![l] = Head(cmdq)]
    /\ cmdq' = Tail(cmdq)
    /\ loop_pc' = [loop_pc EXCEPT ![l] = "lock_map"]
    /\ UNCHANGED <<member_map, amount_of_members, main_tick_counter,
                   instant_age, senders, due_members, chan, pc, id, calls,
                   stale, issued, mgr, elapsed, sharers>>

\* TickCommand::Register(sender, speed_factor), the SelfID send returning at
\* once: the whole arm
LoopRegister(l) ==
    /\ Taking(l)
    /\ Cmd(l).type = "Register"
    /\ MapLockFree(l)
    /\ LET c == Cmd(l)
           new == NextId
       IN  /\ CanSendReply(c.ch)
           /\ amount_of_members' = amount_of_members + 1
           /\ chan' = SendReply(c.ch, ReplySelfID(new))
           /\ member_map' = (new :> [sf |-> NormalizeSpeed(c.sf),
                                     state |-> "Running",
                                     sender |-> c.ch]) @@ member_map
           /\ issued' = Append(issued, new)
    /\ cmdq' = Rest(l)
    /\ pending' = [pending EXCEPT ![l] = NoPending]
    /\ loop_pc' = [loop_pc EXCEPT ![l] = "drain"]
    /\ UNCHANGED <<main_tick_counter, instant_age, senders, due_members, pc,
                   id, calls, stale, mgr, elapsed, sharers>>

\* TickCommand::Register(sender, speed_factor), the reply channel being full:
\* the registry is locked, the id drawn with fetch_add, and the thread waits
\* inside sender.send(SelfID(id))
LoopRegisterPark(l) ==
    /\ Taking(l)
    /\ Cmd(l).type = "Register"
    /\ MapLockFree(l)
    /\ LET c == Cmd(l)
           new == NextId
       IN  /\ ~CanSendReply(c.ch)
           /\ amount_of_members' = amount_of_members + 1
           /\ issued' = Append(issued, new)
           /\ pending' = [pending EXCEPT ![l] =
                             [type |-> "Register", ch |-> c.ch, sf |-> c.sf, id |-> new]]
    /\ cmdq' = Rest(l)
    /\ loop_pc' = [loop_pc EXCEPT ![l] = "register"]
    /\ UNCHANGED <<member_map, main_tick_counter, instant_age, senders,
                   due_members, chan, pc, id, calls, stale, mgr, elapsed,
                   sharers>>

\* the SelfID send of a waiting Register arm returns (room was made, or the
\* receiver was dropped), then map.insert and the guard is dropped
LoopRegisterResume(l) ==
    /\ loop_pc[l] = "register"
    /\ LET c == pending[l]
       IN  /\ CanSendReply(c.ch)
           /\ chan' = SendReply(c.ch, ReplySelfID(c.id))
           /\ member_map' = (c.id :> [sf |-> NormalizeSpeed(c.sf),
                                      state |-> "Running",
                                      sender |-> c.ch]) @@ member_map
    /\ pending' = [pending EXCEPT ![l] = NoPending]
    /\ loop_pc' = [loop_pc EXCEPT ![l] = "drain"]
    /\ UNCHANGED <<cmdq, amount_of_members, main_tick_counter, instant_age,
                   senders, due_members, pc, id, calls, stale, issued, mgr,
                   elapsed, sharers>>

\* a ChangeMemberState that inserts a record when the id has none
LoopChangeMemberState_upsert(l) ==
    /\ Taking(l)
    /\ Cmd(l).type = "ChangeMemberState"
    /\ MapLockFree(l)
    /\ LET c == Cmd(l)
       IN  member_map' = IF c.id \in DOMAIN member_map
                         THEN [member_map EXCEPT ![c.id].state = c.state]
                         ELSE (c.id :> [sf |-> 1, state |-> c.state, sender |-> 1])
                                  @@ member_map
    /\ cmdq' = Rest(l)
    /\ pending' = [pending EXCEPT ![l] = NoPending]
    /\ loop_pc' = [loop_pc EXCEPT ![l] = "drain"]
    /\ UNCHANGED <<amount_of_members, main_tick_counter, instant_age, senders,
                   due_members, chan, pc, id, calls, stale, issued, mgr,
                   elapsed, sharers>>

\* TickCommand::ChangeMemberState(member_id, state)
LoopChangeMemberState(l) ==
    /\ Taking(l)
    /\ Cmd(l).type = "ChangeMemberState"
    /\ MapLockFree(l)
    /\ LET c == Cmd(l)
       IN  member_map' = IF c.id \in DOMAIN member_map
                         THEN [member_map EXCEPT ![c.id].state = c.state]
                         ELSE member_map
    /\ cmdq' = Rest(l)
    /\ pending' = [pending EXCEPT ![l] = NoPending]
    /\ loop_pc' = [loop_pc EXCEPT ![l] = "drain"]
    /\ UNCHANGED <<amount_of_members, main_tick_counter, instant_age, senders,
                   due_members, chan, pc, id, calls, stale, issued, mgr,
                   elapsed, sharers>>

\* TickCommand::Unregister(id)
LoopUnregister(l) ==
    /\ Taking(l)
    /\ Cmd(l).type = "Unregister"
    /\ MapLockFree(l)
    /\ LET c == Cmd(l)
       IN  member_map' = [m \in DOMAIN member_map \ {c.id} |-> member_map[m]]
    /\ cmdq' = Rest(l)
    /\ pending' = [pending EXCEPT ![l] = NoPending]
    /\ loop_pc' = [loop_pc EXCEPT ![l] = "drain"]
    /\ UNCHANGED <<amount_of_members, main_tick_counter, instant_age, senders,
                   due_members, chan, pc, id, calls, stale, issued, mgr,
                   elapsed, sharers>>

\* a Shutdown that only ends the draining of this iteration
LoopShutdown_break(l) ==
    /\ loop_pc[l] = "drain"
    /\ cmdq # <<>>
    /\ Head(cmdq).type = "Shutdown"
    /\ cmdq' = Tail(cmdq)
    /\ UNCHANGED <<member_map, amount_of_members, main_tick_counter, instant_age,
                   loop_pc, senders, pending, due_members, chan, pc, id, calls,
                   stale, issued, mgr, elapsed, sharers>>

\* TickCommand::Shutdown => return
LoopShutdown(l) ==
    /\ loop_pc[l] = "drain"
    /\ cmdq # <<>>
    /\ Head(cmdq).type = "Shutdown"
    /\ cmdq' = Tail(cmdq)
    /\ loop_pc' = [loop_pc EXCEPT ![l] = "done"]
    /\ UNCHANGED <<member_map, amount_of_members, main_tick_counter, instant_age,
                   senders, pending, due_members, chan, pc, id, calls, stale,
                   issued, mgr, elapsed, sharers>>

\* loop l is past its draining and at instant.lock(): try_recv found the
\* queue empty before, or (no other loop thread being there to come in
\* between) finds it empty now
Idle(l) ==
    \/ loop_pc[l] = "drain" /\ cmdq = <<>> /\ Alone(l)
    \/ loop_pc[l] = "lock_instant"

\* try_recv found the queue empty while another loop thread is there: the
\* thread leaves the draining and is about to call instant.lock()
LoopAwaitInstant(l) ==
    /\ loop_pc[l] = "drain"
    /\ cmdq = <<>>
    /\ ~Alone(l)
    /\ loop_pc' = [loop_pc EXCEPT ![l] = "lock_instant"]
    /\ UNCHANGED <<cmdq, member_map, amount_of_members, main_tick_counter,
                   instant_age, senders, pending, due_members, chan, pc, id,
                   calls, stale, issued, mgr, elapsed, sharers>>

\* the queue was empty, instant.lock() returned and new_frame is false:
\* yield_now
LoopYield(l) ==
    /\ Idle(l)
    /\ InstantLockFree(l)
    /\ ~NewFrame
    /\ loop_pc' = [loop_pc EXCEPT ![l] = "drain"]
    /\ UNCHANGED <<cmdq, member_map, amount_of_members, main_tick_counter,
                   instant_age, senders, pending, due_members, chan, pc, id,
                   calls, stale, issued, mgr, elapsed, sharers>>

\* the queue was empty and new_frame is true, no other loop thread running:
\* the counter and the stored instant are advanced, then the due set is
\* computed and gated.  Nothing outside this thread can see or change the
\* registry or the instant in between, so the block is one step
LoopFrame(l) ==
    /\ Idle(l)
    /\ Alone(l)
    /\ NewFrame
    /\ main_tick_counter' = [main_tick_counter EXCEPT ![l] = WrapAdd(@)]
    /\ instant_age' = 0
    /\ LET due == DueMembers(WrapAdd(main_tick_counter[l]))
       IN  IF due # {} /\ AllReady(due)
           THEN LET ticked == {m \in due : IsReady(member_map[m].state)}
                IN  /\ member_map' = [m \in DOMAIN member_map |->
                                        IF m \in ticked
                                        THEN [member_map[m] EXCEPT !.state = "Running"]
                                        ELSE member_map[m]]
                    /\ \E order \in Orderings(ticked) :
                          senders' = [senders EXCEPT ![l] =
                              [k \in 1..Len(order) |-> member_map[order[k]].sender]]
                    /\ loop_pc' = [loop_pc EXCEPT ![l] = "send"]
           ELSE /\ member_map' = member_map
                /\ senders' = [senders EXCEPT ![l] = <<>>]
                /\ loop_pc' = [loop_pc EXCEPT ![l] = "drain"]
    /\ UNCHANGED <<cmdq, amount_of_members, pending, due_members, chan, pc, id,
                   calls, stale, issued, mgr, elapsed, sharers>>

\* The same block while another loop thread runs, which can apply commands
\* between this thread's critical sections.  First part: instant.lock()
\* returned and new_frame is true; the counter and the stored instant are
\* advanced and the guard is kept
LoopFrameBegin(l) ==
    /\ Idle(l)
    /\ ~Alone(l)
    /\ InstantLockFree(l)
    /\ NewFrame
    /\ main_tick_counter' = [main_tick_counter EXCEPT ![l] = WrapAdd(@)]
    /\ instant_age' = 0
    /\ loop_pc' = [loop_pc EXCEPT ![l] = "due"]
    /\ UNCHANGED <<cmdq, member_map, amount_of_members, senders, pending,
                   due_members, chan, pc, id, calls, stale, issued, mgr,
                   elapsed, sharers>>

\* Second part: due_members is computed under the registry lock, which is
\* released again; an empty list ends the step
LoopFrameDue(l) ==
    /\ loop_pc[l] = "due"
    /\ MapLockFree(l)
    /\ LET due == DueMembers(main_tick_counter[l])
       IN  /\ due_members' = [due_members EXCEPT ![l] = due]
           /\ loop_pc' = [loop_pc EXCEPT ![l] = IF due = {} THEN "drain" ELSE "gate"]
    /\ UNCHANGED <<cmdq, member_map, amount_of_members, main_tick_counter,
                   instant_age, senders, pending, chan, pc, id, calls, stale,
                   issued, mgr, elapsed, sharers>>

\* Third part: all_ready is computed over that list under the registry lock,
\* taken anew; the records are read as they are now
LoopFrameGate(l) ==
    /\ loop_pc[l] = "gate"
    /\ MapLockFree(l)
    /\ IF AllReady(due_members[l])
       THEN /\ due_members' = due_members
            /\ loop_pc' = [loop_pc EXCEPT ![l] = "collect"]
       ELSE /\ due_members' = [due_members EXCEPT ![l] = {}]
            /\ loop_pc' = [loop_pc EXCEPT ![l] = "drain"]
    /\ UNCHANGED <<cmdq, member_map, amount_of_members, main_tick_counter,
                   instant_age, senders, pending, chan, pc, id, calls, stale,
                   issued, mgr, elapsed, sharers>>

\* Fourth part: under the registry lock again, every id of due_members that
\* still has a record and is Finished or Hidden is set to Running and its
\* sender collected
LoopFrameCollect(l) ==
    /\ loop_pc[l] = "collect"
    /\ MapLockFree(l)
    /\ LET ticked == {m \in due_members[l] \cap DOMAIN member_map :
                         IsReady(member_map[m].state)}
       IN  /\ member_map' = [m \in DOMAIN member_map |->
                               IF m \in ticked
                               THEN [member_map[m] EXCEPT !.state = "Running"]
                               ELSE member_map[m]]
           /\ \E order \in Orderings(ticked) :
                 senders' = [senders EXCEPT ![l] =
                     [k \in 1..Len(order) |-> member_map[order[k]].sender]]
           /\ loop_pc' = [loop_pc EXCEPT ![l] = IF ticked = {} THEN "drain" ELSE "send"]
    /\ due_members' = [due_members EXCEPT ![l] = {}]
    /\ UNCHANGED <<cmdq, amount_of_members, main_tick_counter, instant_age,
                   pending, chan, pc, id, calls, stale, issued, mgr, elapsed,
                   sharers>>

\* for s in senders { let _ = s.send(TickStateReply::Tick); } then yield_now
LoopSend(l) ==
    /\ loop_pc[l] = "send"
    /\ senders[l] # <<>>
    /\ CanSendReply(Head(senders[l]))
    /\ chan' = SendReply(Head(senders[l]), ReplyTick)
    /\ senders' = [senders EXCEPT ![l] = Tail(@)]
    /\ loop_pc' = [loop_pc EXCEPT ![l] =
                      IF Tail(senders[l]) = <<>> THEN "drain" ELSE "send"]
    /\ UNCHANGED <<cmdq, member_map, amount_of_members, main_tick_counter,
                   instant_age, pending, due_members, pc, id, calls, stale,
                   issued, mgr, elapsed, sharers>>

LoopNext(l) ==
    \/ LoopTake(l)
    \/ LoopRegister(l)
    \/ LoopRegisterPark(l)
    \/ LoopRegisterResume(l)
    \/ LoopChangeMemberState(l)
    \/ LoopUnregister(l)
    \/ LoopShutdown(l)
    \/ LoopAwaitInstant(l)
    \/ LoopYield(l)
    \/ LoopFrame(l)
    \/ LoopFrameBegin(l)
    \/ LoopFrameDue(l)
    \/ LoopFrameGate(l)
    \/ LoopFrameCollect(l)
    \/ LoopSend(l)

(* ------------------------------------------------------------------ *)
(* TickMember: the proxy and its client thread                         *)
(* ------------------------------------------------------------------ *)

\* Sender::send on the command channel by a client: true when the call
\* returns (Ok when there is room, Err at once when disconnected)
ClientSendReturns == Disconnected \/ Len(cmdq) < MaxQueue

\* the queue after a client's send of c
ClientSend(c) == IF Disconnected THEN cmdq ELSE Append(cmdq, c)

\* TickMember::new: send Register(..).unwrap(), then expect_id
New(i, sf) ==
    /\ pc[i] = "unborn"
    /\ ClientSendReturns
    /\ cmdq' = ClientSend(CmdRegister(i, sf))
    /\ pc' = [pc EXCEPT ![i] = IF Disconnected THEN "panic_new" ELSE "await_id"]
    /\ UNCHANGED <<member_map, amount_of_members, main_tick_counter,
                   instant_age, loop_pc, senders, pending, due_members, chan,
                   id, calls, stale, issued, mgr, elapsed, sharers>>

\* expect_id: the reply arrived; SelfID(id) => id, anything else panics
RecvId(i) ==
    /\ pc[i] = "await_id"
    /\ chan[i] # <<>>
    /\ LET r == Head(chan[i])
       IN  IF r.type = "SelfID"
           THEN /\ id' = [id EXCEPT ![i] = r.id]
                /\ pc' = [pc EXCEPT ![i] = "idle"]
                /\ chan' = [chan EXCEPT ![i] = Tail(@)]
           ELSE /\ id' = id
                /\ pc' = [pc EXCEPT ![i] = "panic_id"]
                /\ chan' = [chan EXCEPT ![i] = <<>>]
    /\ UNCHANGED <<cmdq, member_map, amount_of_members, main_tick_counter,
                   instant_age, loop_pc, senders, pending, due_members, calls,
                   stale, issued, mgr, elapsed, sharers>>

\* expect_id: recv_timeout(1s) returned Err; the panic drops the receiver
IdTimeout(i) ==
    /\ pc[i] = "await_id"
    /\ chan[i] = <<>>
    /\ pc' = [pc EXCEPT ![i] = "panic_id"]
    /\ UNCHANGED <<cmdq, member_map, amount_of_members, main_tick_counter,
                   instant_age, loop_pc, senders, pending, due_members, chan,
                   id, calls, stale, issued, mgr, elapsed, sharers>>

\* TickMember::set_state called by the thread that owns the proxy:
\* send(ChangeMemberState(id, state)).unwrap()
SetState(i, st) ==
    /\ pc[i] = "idle"
    /\ ClientSendReturns
    /\ cmdq' = ClientSend(CmdChangeMemberState(id[i], st))
    /\ pc' = [pc EXCEPT ![i] = IF Disconnected THEN "panic_set_state" ELSE "idle"]
    /\ UNCHANGED <<member_map, amount_of_members, main_tick_counter,
                   instant_age, loop_pc, senders, pending, due_members, chan,
                   id, calls, stale, issued, mgr, elapsed, sharers>>

\* TickMember::wait_for_tick, first line: set_state(Finished); the caller
\* performs at most quota calls
WaitForTick(i, quota) ==
    /\ pc[i] = "idle"
    /\ calls[i] < quota
    /\ ClientSendReturns
    /\ cmdq' = ClientSend(CmdChangeMemberState(id[i], "Finished"))
    /\ pc' = [pc EXCEPT ![i] = IF Disconnected THEN "panic_set_state" ELSE "waiting"]
    /\ stale' = [stale EXCEPT ![i] =
                     /\ ~Disconnected
                     /\ chan[i] # <<>> \/ \E l \in DOMAIN senders : i \in Range(senders[l])]
    /\ UNCHANGED <<member_map, amount_of_members, main_tick_counter,
                   instant_age, loop_pc, senders, pending, due_members, chan,
                   id, calls, issued, mgr, elapsed, sharers>>

\* wait_for_tick, the loop: expect_reply returned Ok; Tick => break, else continue
Returns(i) == pc[i] = "waiting" /\ chan[i] # <<>> /\ Head(chan[i]).type = "Tick"

WaitRecvReply(i) ==
    /\ pc[i] = "waiting"
    /\ chan[i] # <<>>
    /\ chan' = [chan EXCEPT ![i] = Tail(@)]
    /\ pc' = IF Returns(i) THEN [pc EXCEPT ![i] = "idle"] ELSE pc
    /\ UNCHANGED <<cmdq, member_map, amount_of_members, main_tick_counter,
                   instant_age, loop_pc, senders, pending, due_members, id,
                   stale, issued, mgr, sharers>>

\* the calling thread counts the calls that returned (the tests' fetch_add)
WaitRecv(i) ==
    /\ WaitRecvReply(i)
    /\ calls' = IF Returns(i) THEN [calls EXCEPT ![i] = @ + 1] ELSE calls
    /\ UNCHANGED elapsed

\* the calling thread counts the call and takes t0 = Instant::now() after it
WaitRecvTimed(i) ==
    /\ WaitRecvReply(i)
    /\ calls' = IF Returns(i) THEN [calls EXCEPT ![i] = @ + 1] ELSE calls
    /\ elapsed' = IF Returns(i) THEN [elapsed EXCEPT ![i] = 0] ELSE elapsed

\* the calling thread keeps no count: it calls wait_for_tick in an endless loop
WaitRecvForever(i) ==
    /\ WaitRecvReply(i)
    /\ UNCHANGED <<calls, elapsed>>

\* wait_for_tick, the loop: expect_reply returned Err (Timeout, or Disconnected
\* once every Sender is gone) => continue
WaitRetry(i) ==
    /\ pc[i] = "waiting"
    /\ chan[i] = <<>>
    /\ UNCHANGED vars

\* the proxy exists and a thread can call it: set_state and wait_for_tick take
\* &self, so a second thread may call while the owner is inside wait_for_tick
Live(i) == pc[i] \in {"idle", "waiting"}

\* TickMember::set_state called by another thread that shares the proxy or
\* holds a clone of it (same id, same handle).  On a disconnected channel the
\* unwrap panics in that thread, which ends; the proxy and its owner go on
SharedSetState(i, st) ==
    /\ Live(i)
    /\ ClientSendReturns
    /\ cmdq' = ClientSend(CmdChangeMemberState(id[i], st))
    /\ UNCHANGED <<member_map, amount_of_members, main_tick_counter,
                   instant_age, loop_pc, senders, pending, due_members, chan,
                   pc, id, calls, stale, issued, mgr, elapsed, sharers>>

\* TickMember::wait_for_tick called by such a thread, first line:
\* set_state(Finished); afterwards the thread is inside the receive loop
SharedWaitForTick(i) ==
    /\ Live(i)
    /\ sharers[i] < MaxSharers
    /\ ClientSendReturns
    /\ cmdq' = ClientSend(CmdChangeMemberState(id[i], "Finished"))
    /\ sharers' = IF Disconnected THEN sharers ELSE [sharers EXCEPT ![i] = @ + 1]
    /\ UNCHANGED <<member_map, amount_of_members, main_tick_counter,
                   instant_age, loop_pc, senders, pending, due_members, chan,
                   pc, id, calls, stale, issued, mgr, elapsed>>

\* wait_for_tick of such a thread, the loop: the receivers of a proxy and of
\* its clones take from one channel, each message going to one of them;
\* Tick => break, else continue
SharedWaitRecv(i) ==
    /\ sharers[i] > 0
    /\ chan[i] # <<>>
    /\ chan' = [chan EXCEPT ![i] = Tail(@)]
    /\ sharers' = IF Head(chan[i]).type = "Tick"
                  THEN [sharers EXCEPT ![i] = @ - 1]
                  ELSE sharers
    /\ UNCHANGED <<cmdq, member_map, amount_of_members, main_tick_counter,
                   instant_age, loop_pc, senders, pending, due_members, pc, id,
                   calls, stale, issued, mgr, elapsed>>

\* #[derive(Clone)] and impl Drop for TickMember: a copy of the proxy is
\* dropped while another copy lives; let _ = send(Unregister(id)), and the
\* reply channel stays connected through the remaining copy
DropClone(i) ==
    /\ Live(i)
    /\ ClientSendReturns
    /\ cmdq' = ClientSend(CmdUnregister(id[i]))
    /\ UNCHANGED <<member_map, amount_of_members, main_tick_counter,
                   instant_age, loop_pc, senders, pending, due_members, chan,
                   pc, id, calls, stale, issued, mgr, elapsed, sharers>>

\* impl Drop for TickMember, the last copy, which no thread is using:
\* let _ = send(Unregister(id)); the receiver goes
DropMember(i) ==
    /\ pc[i] = "idle"
    /\ sharers[i] = 0
    /\ ClientSendReturns
    /\ cmdq' = ClientSend(CmdUnregister(id[i]))
    /\ pc' = [pc EXCEPT ![i] = "dropped"]
    /\ chan' = [chan EXCEPT ![i] = <<>>]
    /\ UNCHANGED <<member_map, amount_of_members, main_tick_counter,
                   instant_age, loop_pc, senders, pending, due_members, id,
                   calls, stale, issued, mgr, elapsed, sharers>>

\* a client that owns no proxy makes a reply channel of its own (flume::
\* bounded(1)), puts a message into it first when full is TRUE, and sends
\* Register(sender, sf) through TickManagerHandle::send; it keeps the receiver
RawRegister(i, sf, full) ==
    /\ pc[i] = "unborn"
    /\ ClientSendReturns
    /\ cmdq' = ClientSend(CmdRegister(i, sf))
    /\ chan' = [chan EXCEPT ![i] = IF full THEN <<ReplyTick>> ELSE <<>>]
    /\ pc' = [pc EXCEPT ![i] = "raw"]
    /\ UNCHANGED <<member_map, amount_of_members, main_tick_counter,
                   instant_age, loop_pc, senders, pending, due_members, id,
                   calls, stale, issued, mgr, elapsed, sharers>>

\* that client takes a message from its receiver
RawRecv(i) ==
    /\ pc[i] = "raw"
    /\ chan[i] # <<>>
    /\ chan' = [chan EXCEPT ![i] = Tail(@)]
    /\ UNCHANGED <<cmdq, member_map, amount_of_members, main_tick_counter,
                   instant_age, loop_pc, senders, pending, due_members, pc, id,
                   calls, stale, issued, mgr, elapsed, sharers>>

\* that client drops its receiver; it sends no Unregister
RawClose(i) ==
    /\ pc[i] = "raw"
    /\ pc' = [pc EXCEPT ![i] = "dropped"]
    /\ chan' = [chan EXCEPT ![i] = <<>>]
    /\ UNCHANGED <<cmdq, member_map, amount_of_members, main_tick_counter,
                   instant_age, loop_pc, senders, pending, due_members, id,
                   calls, stale, issued, mgr, elapsed, sharers>>

\* TickManagerHandle::send called by a client directly: the command may name
\* any MemberID, whether or not the registry holds a record for it
HandleSend(c) ==
    /\ ClientSendReturns
    /\ cmdq' = ClientSend(c)
    /\ UNCHANGED <<member_map, amount_of_members, main_tick_counter,
                   instant_age, loop_pc, senders, pending, due_members, chan,
                   pc, id, calls, stale, issued, mgr, elapsed, sharers>>

(* ------------------------------------------------------------------ *)
(* TickManager: start and impl Drop                                    *)
(* ------------------------------------------------------------------ *)

\* the loop thread whose JoinHandle self.handle holds: the latest one spawned
LatestLoop == CHOOSE l \in DOMAIN loop_pc :
                 /\ loop_pc[l] # "unborn"
                 /\ \A k \in DOMAIN loop_pc : k > l => loop_pc[k] = "unborn"

\* pub fn start(&mut self), called again by the owner of the manager: one more
\* loop thread on the same queue, registry and instant, with a step counter
\* of its own starting at 0; self.handle is overwritten
Start(l) ==
    /\ mgr = "alive"
    /\ loop_pc[l] = "unborn"
    /\ l = LatestLoop + 1
    /\ loop_pc' = [loop_pc EXCEPT ![l] = "drain"]
    /\ main_tick_counter' = [main_tick_counter EXCEPT ![l] = 0]
    /\ UNCHANGED <<cmdq, member_map, amount_of_members, instant_age, senders,
                   pending, due_members, chan, pc, id, calls, stale, issued,
                   mgr, elapsed, sharers>>

\* let _ = self.global_sender.send(TickCommand::Shutdown)
ManagerDrop ==
    /\ mgr = "alive"
    /\ Len(cmdq) < MaxQueue
    /\ cmdq' = Append(cmdq, CmdShutdown)
    /\ mgr' = "joining"
    /\ UNCHANGED <<member_map, amount_of_members, main_tick_counter,
                   instant_age, loop_pc, senders, pending, due_members, chan,
                   pc, id, calls, stale, issued, elapsed, sharers>>

\* let _ = handler.join() on self.handle; afterwards the fields, the Receiver
\* among them, drop
ManagerJoin ==
    /\ mgr = "joining"
    /\ loop_pc[LatestLoop] = "done"
    /\ mgr' = "dropped"
    /\ UNCHANGED <<cmdq, member_map, amount_of_members, main_tick_counter,
                   instant_age, loop_pc, senders, pending, due_members, chan,
                   pc, id, calls, stale, issued, elapsed, sharers>>

(* ------------------------------------------------------------------ *)
(* Specifications                                                      *)
(* ------------------------------------------------------------------ *)

\* The running system: any client behaviour, the manager stays alive
Next ==
    \/ TimePasses
    \/ LoopRegister(FirstLoop)
    \/ LoopChangeMemberState(FirstLoop)
    \/ LoopUnregister(FirstLoop)
    \/ LoopYield(FirstLoop)
    \/ LoopFrame(FirstLoop)
    \/ LoopSend(FirstLoop)
    \/ \E i \in Members, sf \in SpeedFactors : New(i, sf)
    \/ \E i \in Members : RecvId(i)
    \/ \E i \in Members : IdTimeout(i)
    \/ \E i \in Members, st \in MemberStates : SetState(i, st)
    \/ \E i \in Members : WaitForTick(i, MaxCalls)
    \/ \E i \in Members : WaitRecv(i)
    \/ \E i \in Members : WaitRetry(i)
    \/ \E i \in Members : DropMember(i)

Spec == Init /\ [][Next]_vars

\* The state once proxies 1..n have been constructed, in index order, with the
\* speed factors sfs (already normalised) and the loop has drained its queue;
\* the owner of the manager is may call start nl - 1 more times
RegisteredLoops(n, sfs, nl) ==
    /\ cmdq = <<>>
    /\ member_map = [m \in 0..(n - 1) |->
                        [sf |-> sfs[m + 1], state |-> "Running", sender |-> m + 1]]
    /\ amount_of_members = n
    /\ main_tick_counter = [l \in 1..nl |-> 0]
    /\ instant_age = 0
    /\ loop_pc = [l \in 1..nl |-> IF l = FirstLoop THEN "drain" ELSE "unborn"]
    /\ senders = [l \in 1..nl |-> <<>>]
    /\ pending = [l \in 1..nl |-> NoPending]
    /\ due_members = [l \in 1..nl |-> {}]
    /\ chan = [i \in 1..n |-> <<>>]
    /\ pc = [i \in 1..n |-> "idle"]
    /\ id = [i \in 1..n |-> i - 1]
    /\ calls = [i \in 1..n |-> 0]
    /\ stale = [i \in 1..n |-> FALSE]
    /\ issued = [k \in 1..n |-> k - 1]
    /\ mgr = "alive"
    /\ elapsed = [i \in 1..n |-> Period]
    /\ sharers = [i \in 1..n |-> 0]

\* The same for a manager that is started once, by TickManager::new
RegisteredFirst(n, sfs) == RegisteredLoops(n, sfs, 1)

\* The state once every proxy of Members has been constructed
Registered(sfs) == RegisteredFirst(NMembers, sfs)

\* Destroying the manager while members are registered
InitShutdown == \E sfs \in [Members -> 1..MaxSpeed] : Registered(sfs)

NextShutdown ==
    \/ TimePasses
    \/ LoopChangeMemberState(FirstLoop)
    \/ LoopUnregister(FirstLoop)
    \/ LoopShutdown(FirstLoop)
    \/ LoopYield(FirstLoop)
    \/ LoopFrame(FirstLoop)
    \/ LoopSend(FirstLoop)
    \/ \E i \in Members, st \in MemberStates : SetState(i, st)
    \/ \E i \in Members : WaitForTick(i, MaxCalls)
    \/ \E i \in Members : WaitRecv(i)
    \/ \E i \in Members : WaitRetry(i)
    \/ \E i \in Members : DropMember(i)
    \/ ManagerDrop
    \/ ManagerJoin

SpecShutdown == InitShutdown /\ [][NextShutdown]_vars

\* The loop thread of a scenario in which nobody registers, unregisters or
\* shuts down
ScenarioLoop ==
    \/ LoopChangeMemberState(FirstLoop)
    \/ LoopYield(FirstLoop)
    \/ LoopFrame(FirstLoop)
    \/ LoopSend(FirstLoop)

\* A client thread that only calls wait_for_tick, quota times
Waiter(i, quota) ==
    \/ WaitForTick(i, quota)
    \/ WaitRecv(i)
    \/ WaitRetry(i)

\* Test speed_factor_counts: proxy 1 has speed factor 1 and performs
\* 2 * NRounds calls, the others have speed factor 2 and perform NRounds calls
HalfSpeed(i) == IF i = 1 THEN 1 ELSE 2

HalfQuota(i) == IF i = 1 THEN 2 * NRounds ELSE NRounds

InitSpeedFactor == Registered([i \in Members |-> HalfSpeed(i)])

NextSpeedFactor ==
    \/ TimePasses
    \/ ScenarioLoop
    \/ \E i \in Members : Waiter(i, HalfQuota(i))

\* every thread keeps being scheduled and the clock keeps running
FairSpeedFactor ==
    /\ InitSpeedFactor
    /\ [][NextSpeedFactor]_vars
    /\ WF_vars(TimePasses)
    /\ WF_vars(ScenarioLoop)
    /\ \A i \in Members : WF_vars(Waiter(i, HalfQuota(i)))

\* Test nonblocking_slow_member: the last proxy has speed factor 1 and performs
\* FastCalls calls; the others have speed factor SlowFactor, stay Running and
\* never call anything
Fast == NMembers

SlowSpeed(i) == IF i = Fast THEN 1 ELSE SlowFactor

InitSlowMember == Registered([i \in Members |-> SlowSpeed(i)])

NextSlowMember ==
    \/ TimePasses
    \/ ScenarioLoop
    \/ Waiter(Fast, FastCalls)

FairSlowMember ==
    /\ InitSlowMember
    /\ [][NextSlowMember]_vars
    /\ WF_vars(TimePasses)
    /\ WF_vars(ScenarioLoop)
    /\ WF_vars(Waiter(Fast, FastCalls))

(* ------------------------------------------------------------------ *)
(* Registry scenario: proxies come and go while a client also sends    *)
(* raw commands through the handle; the last index belongs to a client  *)
(* that owns no proxy and registers through the handle itself           *)
(* ------------------------------------------------------------------ *)

Outsider == NMembers

\* The commands a client can build without a channel of its own, for an
\* arbitrary MemberID; NMembers itself is an id the manager never issues to
\* the NMembers proxies.  Register is built by RawRegister
RawCommands ==
    {CmdUnregister(k) : k \in 0..NMembers}
        \cup {CmdChangeMemberState(k, st) : k \in 0..NMembers, st \in MemberStates}
        \cup {CmdShutdown}

NextRegistry ==
    \/ TimePasses
    \/ LoopRegister(FirstLoop)
    \/ LoopRegisterPark(FirstLoop)
    \/ LoopRegisterResume(FirstLoop)
    \/ LoopChangeMemberState(FirstLoop)
    \/ LoopUnregister(FirstLoop)
    \/ LoopShutdown(FirstLoop)
    \/ LoopYield(FirstLoop)
    \/ LoopFrame(FirstLoop)
    \/ LoopSend(FirstLoop)
    \/ \E i \in Members \ {Outsider}, sf \in SpeedFactors : New(i, sf)
    \/ \E i \in Members : RecvId(i)
    \/ \E i \in Members : IdTimeout(i)
    \/ \E i \in Members : DropMember(i)
    \/ \E sf \in SpeedFactors, full \in BOOLEAN : RawRegister(Outsider, sf, full)
    \/ RawRecv(Outsider)
    \/ RawClose(Outsider)
    \/ \E c \in RawCommands : HandleSend(c)

SpecRegistry == Init /\ [][NextRegistry]_vars

(* ------------------------------------------------------------------ *)
(* Shared proxies: besides its owner, further threads use each proxy   *)
(* through a shared reference or a clone, and clones are dropped       *)
(* ------------------------------------------------------------------ *)

\* the proxy that further threads use
Shared == 1

InitShared == Registered([i \in Members |-> 1])

NextShared ==
    \/ TimePasses
    \/ ScenarioLoop
    \/ LoopUnregister(FirstLoop)
    \/ \E i \in Members : Waiter(i, MaxCalls)
    \/ \E st \in MemberStates : SharedSetState(Shared, st)
    \/ SharedWaitForTick(Shared)
    \/ SharedWaitRecv(Shared)
    \/ DropClone(Shared)
    \/ DropMember(Shared)

SpecShared == InitShared /\ [][NextShared]_vars

(* ------------------------------------------------------------------ *)
(* Restart: the owner of the manager calls start again, so that up to  *)
(* MaxLoops loop threads serve the same queue, registry and instant.    *)
(* Every proxy but the Outsider's is registered with speed factor       *)
(* MaxSpeed                                                             *)
(* ------------------------------------------------------------------ *)

InitRestart ==
    /\ cmdq = <<>>
    /\ member_map = [m \in 0..(NMembers - 2) |->
                        [sf |-> MaxSpeed, state |-> "Running", sender |-> m + 1]]
    /\ amount_of_members = NMembers - 1
    /\ main_tick_counter = [l \in 1..MaxLoops |-> 0]
    /\ instant_age = 0
    /\ loop_pc = [l \in 1..MaxLoops |-> IF l = FirstLoop THEN "drain" ELSE "unborn"]
    /\ senders = [l \in 1..MaxLoops |-> <<>>]
    /\ pending = [l \in 1..MaxLoops |-> NoPending]
    /\ due_members = [l \in 1..MaxLoops |-> {}]
    /\ chan = [i \in Members |-> <<>>]
    /\ pc = [i \in Members |-> IF i = Outsider THEN "unborn" ELSE "idle"]
    /\ id = [i \in Members |-> IF i = Outsider THEN NoId ELSE i - 1]
    /\ calls = [i \in Members |-> 0]
    /\ stale = [i \in Members |-> FALSE]
    /\ issued = [k \in 1..(NMembers - 1) |-> k - 1]
    /\ mgr = "alive"
    /\ elapsed = [i \in Members |-> Period]
    /\ sharers = [i \in Members |-> 0]

NextRestart ==
    \/ TimePasses
    \/ \E l \in Loops : LoopNext(l)
    \/ \E l \in Loops : Start(l)
    \/ ManagerDrop
    \/ ManagerJoin
    \/ \E i \in Members \ {Outsider} : Waiter(i, MaxCalls)
    \/ \E i \in Members \ {Outsider} : DropMember(i)
    \/ \E full \in BOOLEAN : RawRegister(Outsider, 1, full)
    \/ RawRecv(Outsider)
    \/ RawClose(Outsider)

SpecRestart == InitRestart /\ [][NextRestart]_vars

(* ------------------------------------------------------------------ *)
(* Test interval_timing_approximation: every proxy has speed factor 1, *)
(* calls wait_for_tick MaxCalls times and reads its clock after each    *)
(* return                                                               *)
(* ------------------------------------------------------------------ *)

InitInterval == Registered([i \in Members |-> 1])

TimedWaiter(i, quota) ==
    \/ WaitForTick(i, quota)
    \/ WaitRecvTimed(i)
    \/ WaitRetry(i)

NextInterval ==
    \/ TimePasses
    \/ ScenarioLoop
    \/ \E i \in Members : TimedWaiter(i, MaxCalls)

SpecInterval == InitInterval /\ [][NextInterval]_vars

(* ------------------------------------------------------------------ *)
(* Correct use without end: every proxy's thread calls wait_for_tick    *)
(* again and again, for any mix of speed factors                        *)
(* ------------------------------------------------------------------ *)

InitForever == \E sfs \in [Members -> 1..MaxSpeed] : Registered(sfs)

\* loop { member.wait_for_tick(); }
ForeverWaiter(i) ==
    \/ WaitForTick(i, calls[i] + 1)
    \/ WaitRecvForever(i)
    \/ WaitRetry(i)

NextForever ==
    \/ TimePasses
    \/ ScenarioLoop
    \/ \E i \in Members : ForeverWaiter(i)

\* the clock runs and the loop thread and every member thread keep being
\* scheduled
FairForever ==
    /\ InitForever
    /\ [][NextForever]_vars
    /\ WF_vars(TimePasses)
    /\ WF_vars(ScenarioLoop)
    /\ \A i \in Members : WF_vars(ForeverWaiter(i))

(* ------------------------------------------------------------------ *)
(* Withheld tick: every proxy has speed factor 1.  The thread of proxy  *)
(* Declarer declares it Finished through set_state whenever it likes    *)
(* and never receives; every other thread calls wait_for_tick MaxCalls  *)
(* times                                                                *)
(* ------------------------------------------------------------------ *)

Declarer == 1

InitWithheld == Registered([i \in Members |-> 1])

NextWithheld ==
    \/ TimePasses
    \/ ScenarioLoop
    \/ SetState(Declarer, "Finished")
    \/ \E i \in Members \ {Declarer} : Waiter(i, MaxCalls)

\* the clock runs, the loop thread keeps being scheduled and so does every
\* thread that calls wait_for_tick; when the Declarer calls set_state again
\* is its own business
FairWithheld ==
    /\ InitWithheld
    /\ [][NextWithheld]_vars
    /\ WF_vars(TimePasses)
    /\ WF_vars(ScenarioLoop)
    /\ \A i \in Members \ {Declarer} : WF_vars(Waiter(i, MaxCalls))

(* ------------------------------------------------------------------ *)
(* Barrier scenario: proxy 1 registers with speed factor 1, never      *)
(* declares itself ready and is disposed at some point; NMembers more   *)
(* proxies, one of speed factor 1 and the others of speed factor 2,     *)
(* each call wait_for_tick once                                         *)
(* ------------------------------------------------------------------ *)

Blocker == 1

Remaining == 2..(NMembers + 1)

BarrierSpeed(i) == IF i <= 2 THEN 1 ELSE 2

InitBarrier == RegisteredFirst(NMembers + 1, [i \in 1..(NMembers + 1) |-> BarrierSpeed(i)])

BarrierLoop ==
    \/ ScenarioLoop
    \/ LoopUnregister(FirstLoop)

NextBarrier ==
    \/ TimePasses
    \/ BarrierLoop
    \/ DropMember(Blocker)
    \/ \E i \in Remaining : Waiter(i, 1)

\* the clock runs, every thread keeps being scheduled and the blocker's proxy
\* is disposed in the end
FairBarrier ==
    /\ InitBarrier
    /\ [][NextBarrier]_vars
    /\ WF_vars(TimePasses)
    /\ WF_vars(BarrierLoop)
    /\ WF_vars(DropMember(Blocker))
    /\ \A i \in Remaining : WF_vars(Waiter(i, 1))

(* ------------------------------------------------------------------ *)
(* Correct use: every proxy is driven by one thread that constructs it *)
(* and then only calls wait_for_tick                                    *)
(* ------------------------------------------------------------------ *)

NextCorrectUse ==
    \/ TimePasses
    \/ LoopRegister(FirstLoop)
    \/ LoopChangeMemberState(FirstLoop)
    \/ LoopYield(FirstLoop)
    \/ LoopFrame(FirstLoop)
    \/ LoopSend(FirstLoop)
    \/ \E i \in Members, sf \in SpeedFactors : New(i, sf)
    \/ \E i \in Members : RecvId(i)
    \/ \E i \in Members : IdTimeout(i)
    \/ \E i \in Members : Waiter(i, MaxCalls)

SpecCorrectUse == Init /\ [][NextCorrectUse]_vars

(* ------------------------------------------------------------------ *)
(* Claims                                                              *)
(* ------------------------------------------------------------------ *)

\* C1  Gate safety: whenever the loop goes on to deliver Ticks for a step,
\* every registered member due on that step (step counter mod speed factor = 0)
\* was Finished or Hidden when the gate was evaluated, and the Ticks collected
\* go to due members only; no Tick is sent on a step with a due member Running.
C1_GateSafety ==
    [][(loop_pc[FirstLoop] = "drain" /\ loop_pc'[FirstLoop] = "send") =>
          /\ \A m \in DOMAIN member_map :
                (main_tick_counter'[FirstLoop] % member_map[m].sf = 0)
                    => member_map[m].state \in {"Finished", "Hidden"}
          /\ \A k \in 1..Len(senders'[FirstLoop]) : \E m \in DOMAIN member_map :
                /\ member_map[m].sender = senders'[FirstLoop][k]
                /\ main_tick_counter'[FirstLoop] % member_map[m].sf = 0
      ]_vars

\* C1 witness: a step on which two due members were both ready is being delivered
C1_Witness == loop_pc[FirstLoop] = "send" /\ Len(senders[FirstLoop]) = 2

\* the cadence policy allows a step, and on the step that would start now the
\* due set is empty or holds a member that is Running
GateStaysClosed ==
    /\ loop_pc[FirstLoop] = "drain"
    /\ cmdq = <<>>
    /\ instant_age >= Period
    /\ LET step == (main_tick_counter[FirstLoop] + 1) % (2 ^ CounterBits)
           due == {m \in DOMAIN member_map : step % member_map[m].sf = 0}
       IN  due = {} \/ \E m \in due : member_map[m].state = "Running"

\* C2 as stated: when a step is eligible but the gate does not open, the step
\* counter, the stored time of the last step and every member record are left
\* unchanged.
C2_StepNotConsumed ==
    [][(GateStaysClosed /\ LoopFrame(FirstLoop)) =>
          UNCHANGED <<main_tick_counter, instant_age, member_map>>]_vars

\* the loop processes a ChangeMemberState command for member m in this step
ExplicitChange(m) ==
    /\ loop_pc[FirstLoop] = "drain"
    /\ cmdq # <<>>
    /\ Head(cmdq).type = "ChangeMemberState"
    /\ Head(cmdq).id = m
    /\ cmdq' = Tail(cmdq)

\* C3  A member whose record is Hidden stays ready (Finished or Hidden) for the
\* gate through every step of the loop, Tick deliveries included, until a
\* ChangeMemberState of its own is processed or it is unregistered.
C3_HiddenStaysReady ==
    [][\A m \in DOMAIN member_map :
          (member_map[m].state = "Hidden" /\ ~ExplicitChange(m))
              => (m \notin DOMAIN member_map'
                  \/ member_map'[m].state \in {"Finished", "Hidden"})
      ]_vars

\* C4  speed_factor_counts: the factor-1 member completes 2 * NRounds calls and
\* the factor-2 members complete NRounds calls, under every fair interleaving.
C4_BothComplete == <>(\A i \in Members : calls[i] = HalfQuota(i))

\* C5  nonblocking_slow_member: with the slow members Running and never
\* waiting, every call of the factor-1 member eventually returns.
C5_FastCompletes == <>(calls[Fast] = FastCalls)

\* C5 witness: the fast member has completed all its calls, which takes more
\* steps than the slow members' speed factor, and the slow members are Running
C5_Witness ==
    /\ calls[Fast] = FastCalls
    /\ FastCalls >= SlowFactor
    /\ \A m \in DOMAIN member_map :
          member_map[m].sender # Fast => member_map[m].state = "Running"

\* C6  Destroying the manager never hangs: while the destroying thread waits in
\* join and no client is inside a call, the loop has terminated or can take
\* its next step.
C6_DestroyNeverHangs ==
    (mgr = "joining" /\ \A i \in Members : pc[i] # "waiting")
        => (loop_pc[FirstLoop] = "done" \/ ENABLED LoopNext(FirstLoop))

\* C7  The k-th processed registration receives id k-1 (so ids are 0..N-1
\* without duplicates or gaps, and an unregistered id is never handed out
\* again), and every proxy holds the id issued to it.
C7_IdsMonotonic ==
    /\ \A k \in 1..Len(issued) : issued[k] = k - 1
    /\ \A i \in Members : id[i] # NoId => id[i] \in Range(issued)
    /\ \A i, j \in Members : (i # j /\ id[i] # NoId) => id[i] # id[j]

\* C7 witness: a second registration was processed after id 0 was unregistered
C7_Witness ==
    /\ issued = <<0, 1>>
    /\ DOMAIN member_map = {1}
    /\ \E i, j \in Members : pc[i] = "dropped" /\ id[i] = 0 /\ id[j] = 1

\* C8  wait_for_tick returns only on a Tick, and never on a Tick that was
\* already buffered in the reply channel, or already collected for sending,
\* when the call declared the member Finished.
C8_OnlyNextTick ==
    [][\A i \in Members :
          (pc[i] = "waiting" /\ pc'[i] = "idle")
              => (Head(chan[i]).type = "Tick" /\ ~stale[i])
      ]_vars

\* wait_for_tick leaves its receive loop
WaitExit(i) == WaitRecv(i) /\ pc'[i] # "waiting"

\* C9  Once the manager is gone, a member inside wait_for_tick can leave the
\* call: it does not spin in the receive loop forever.
C9_WaitEndsAfterShutdown ==
    \A i \in Members : (pc[i] = "waiting" /\ mgr = "dropped") => ENABLED WaitExit(i)

\* C10  set_state and disposal on a disconnected command channel fail
\* silently: no client thread panics in set_state.
C10_SetStateSilent == \A i \in Members : pc[i] # "panic_set_state"

(* ------------------------------------------------------------------ *)
(* C11: registry membership                                             *)
(* ------------------------------------------------------------------ *)

\* the loop takes a command of the given type off the queue in this step
Dequeued(t) ==
    /\ loop_pc[FirstLoop] = "drain"
    /\ cmdq # <<>>
    /\ Head(cmdq).type = t
    /\ cmdq' = Tail(cmdq)

\* the command at the head of the queue names an id that has no record
NamesAbsent ==
    /\ cmdq # <<>>
    /\ Head(cmdq).type \in {"ChangeMemberState", "Unregister"}
    /\ Head(cmdq).id \notin DOMAIN member_map

\* the loop completes the processing of a Register in this step: in the step
\* that takes it from the queue, or after having waited in the SelfID send
RegisterProcessed ==
    /\ loop_pc'[FirstLoop] = "drain"
    /\ Dequeued("Register") \/ loop_pc[FirstLoop] = "register"

\* the id drawn for that Register
RegisteredId ==
    IF loop_pc[FirstLoop] = "register" THEN pending[FirstLoop].id ELSE amount_of_members

\* C11: the registry starts empty and its set of ids changes only when a
\* Register is processed (the fresh id gains a record) or an Unregister is
\* processed (the named id loses its record), so an id has a record exactly
\* when its Register was processed and no Unregister for it since; a
\* ChangeMemberState or Unregister naming an id without a record leaves the
\* registry, the id counter and the step counter as they were and the loop
\* goes on draining.
C11_RegistryInvariant ==
    [][/\ DOMAIN member_map' =
             IF RegisterProcessed
             THEN DOMAIN member_map \cup {RegisteredId}
             ELSE IF Dequeued("Unregister")
             THEN DOMAIN member_map \ {Head(cmdq).id}
             ELSE DOMAIN member_map
       /\ (NamesAbsent /\ (Dequeued("ChangeMemberState") \/ Dequeued("Unregister")))
             => /\ UNCHANGED <<member_map, amount_of_members, main_tick_counter>>
                /\ loop_pc'[FirstLoop] = "drain"]_vars

\* the record of id 0 was created and removed again, another member still has
\* a record, and a further command naming id 0 is the next one the loop takes
C11_Witness ==
    /\ loop_pc[FirstLoop] = "drain"
    /\ NamesAbsent
    /\ Head(cmdq).id = 0
    /\ 0 \in Range(issued)
    /\ 1 \in DOMAIN member_map

(* ------------------------------------------------------------------ *)
(* C12: cadence spacing                                                 *)
(* ------------------------------------------------------------------ *)

\* C12 as stated: a return of wait_for_tick that is not the proxy's first
\* comes at least one full period after the proxy's previous return.
C12_ReturnsSpaced ==
    [][\A i \in Members :
          (Returns(i) /\ pc'[i] = "idle" /\ calls[i] >= 1) => elapsed[i] >= Period]_vars

\* C12, amended: a step is started, and Ticks are collected for sending, only
\* when at least one full period has passed since the stored instant, and the
\* step stores the current instant; so two steps, and the collections of two
\* Ticks for one member, are at least one period apart (the sends and the
\* returns of wait_for_tick follow with an arbitrary lag).
C12_StepsSpaced ==
    [][(\/ main_tick_counter'[FirstLoop] # main_tick_counter[FirstLoop]
        \/ loop_pc[FirstLoop] = "drain" /\ loop_pc'[FirstLoop] = "send")
          => (instant_age >= Period /\ instant_age' = 0)]_vars

\* two steps have been taken and a proxy has returned from all its calls
C12_Witness ==
    /\ main_tick_counter[FirstLoop] >= 2
    /\ \E i \in Members : calls[i] = MaxCalls /\ pc[i] = "idle"

(* ------------------------------------------------------------------ *)
(* C13: the loop is never permanently blocked                           *)
(* ------------------------------------------------------------------ *)

\* C13: while it runs, the loop can always take a step, or it is at a send
\* whose receiver is inside a receive and will make room; it is never parked
\* at a send that only a further client call, which need not come, would
\* release (and behind which every producer on a full queue stays blocked).
C13_LoopNeverBlocked ==
    loop_pc[FirstLoop] # "done"
        => \/ ENABLED LoopNext(FirstLoop)
           \/ /\ loop_pc[FirstLoop] = "send"
              /\ pc[Head(senders[FirstLoop])] \in {"waiting", "await_id"}

(* ------------------------------------------------------------------ *)
(* C14: no tick missed or duplicated                                    *)
(* ------------------------------------------------------------------ *)

\* the members whose speed factor divides the step number the loop moves to
DueOnNewStep ==
    {m \in DOMAIN member_map : main_tick_counter'[FirstLoop] % member_map[m].sf = 0}

\* C14: on a step whose gate opens, the loop collects the sender of every due
\* member exactly once and of nobody else, sets exactly the due members to
\* Running and leaves every other record as it was; each send puts one Tick
\* into the channel of the next collected sender (or fails because the
\* receiver is gone) and touches nothing else; no Tick enters a reply channel
\* in any other way; and no tick is missed: every member whose sender the step
\* collected is sent its Tick.
C14_EveryDueTicked ==
    /\ [][/\ (loop_pc[FirstLoop] = "drain" /\ loop_pc'[FirstLoop] = "send")
                => /\ Len(senders'[FirstLoop]) = Cardinality(DueOnNewStep)
                   /\ Range(senders'[FirstLoop]) =
                          {member_map[m].sender : m \in DueOnNewStep}
                   /\ DOMAIN member_map' = DOMAIN member_map
                   /\ \A m \in DueOnNewStep :
                         member_map'[m] = [member_map[m] EXCEPT !.state = "Running"]
                   /\ \A m \in DOMAIN member_map \ DueOnNewStep :
                         member_map'[m] = member_map[m]
          /\ (loop_pc[FirstLoop] = "send" /\ senders'[FirstLoop] # senders[FirstLoop])
                => /\ senders'[FirstLoop] = Tail(senders[FirstLoop])
                   /\ member_map' = member_map
                   /\ \A i \in Members :
                         chan'[i] = IF i = Head(senders[FirstLoop]) /\ ~ReceiverGone(i)
                                    THEN Append(chan[i], ReplyTick)
                                    ELSE chan[i]
          /\ \A i \in Members :
                (Len(chan'[i]) > Len(chan[i]) /\ chan'[i][Len(chan'[i])] = ReplyTick)
                    => (loop_pc[FirstLoop] = "send" /\ Head(senders[FirstLoop]) = i)]_vars
    /\ \A i \in Members :
          (loop_pc[FirstLoop] = "send" /\ i \in Range(senders[FirstLoop]))
              ~> (i \notin Range(senders[FirstLoop]))

(* ------------------------------------------------------------------ *)
(* C15: wrap-around of the step counter                                 *)
(* ------------------------------------------------------------------ *)

\* C15: from any step the loop has reached, a member with speed factor k is
\* due on exactly one of the next k steps, also when those steps run across
\* the wrap of the counter to zero.
C15_DueOncePerWindow ==
    \A m \in DOMAIN member_map :
        Cardinality({j \in 1..member_map[m].sf :
                        m \in DueMembers(StepAfter(main_tick_counter[FirstLoop], j))}) = 1

(* ------------------------------------------------------------------ *)
(* C16: Shutdown is terminal and immediate                              *)
(* ------------------------------------------------------------------ *)

\* C16: commands leave the queue from its head only; the step that takes a
\* Shutdown ends the loop at once and changes no record and sends nothing;
\* once the loop has ended nothing is taken from the queue any more, no
\* record, counter or collected sender changes and no reply channel gains a
\* message.
C16_ShutdownTerminal ==
    [][/\ Len(cmdq') < Len(cmdq) => (loop_pc[FirstLoop] = "drain" /\ cmdq' = Tail(cmdq))
       /\ Dequeued("Shutdown")
             => /\ loop_pc'[FirstLoop] = "done"
                /\ UNCHANGED <<member_map, amount_of_members, main_tick_counter,
                               senders, chan>>
       /\ loop_pc[FirstLoop] = "done"
             => /\ loop_pc'[FirstLoop] = "done"
                /\ Len(cmdq') >= Len(cmdq)
                /\ SubSeq(cmdq', 1, Len(cmdq)) = cmdq
                /\ UNCHANGED <<member_map, amount_of_members, main_tick_counter,
                               senders, issued>>
                /\ \A i \in Members : Len(chan'[i]) <= Len(chan[i])]_vars

\* the loop has ended and an Unregister for a member that still has its record
\* stays in the queue behind the Shutdown it took
C16_Witness ==
    /\ loop_pc[FirstLoop] = "done"
    /\ cmdq # <<>>
    /\ Head(cmdq).type = "Unregister"
    /\ Head(cmdq).id \in DOMAIN member_map

(* ------------------------------------------------------------------ *)
(* C17: no lock held during a blocking send                             *)
(* ------------------------------------------------------------------ *)

\* C17: whenever the loop is at a blocking send, of a Tick or of the SelfID
\* reply to a registration, it holds neither the registry lock nor the
\* stored-instant lock.
C17_NoLockAcrossSend ==
    (loop_pc[FirstLoop] = "send" \/ loop_pc[FirstLoop] = "register")
        => HeldLocks(FirstLoop) = {}

(* ------------------------------------------------------------------ *)
(* C18: no starvation under correct use                                 *)
(* ------------------------------------------------------------------ *)

\* C18: when every member is driven only by a thread that calls wait_for_tick
\* for ever, every member returns from wait_for_tick again and again, whatever
\* the mix of speed factors.
C18_NoStarvation == \A i \in Members : []<>(pc[i] = "idle")

(* ------------------------------------------------------------------ *)
(* C19: unregistration unblocks the barrier                             *)
(* ------------------------------------------------------------------ *)

\* the loop is about to evaluate a step on which proxy i's member is due and
\* waiting and on which the blocker's Running record is the only thing that
\* keeps the gate closed
BlockedOnlyByBlocker(i) ==
    /\ loop_pc[FirstLoop] = "drain" /\ cmdq = <<>> /\ NewFrame
    /\ id[Blocker] \in DOMAIN member_map
    /\ member_map[id[Blocker]].state = "Running"
    /\ pc[i] = "waiting"
    /\ LET due == DueMembers(WrapAdd(main_tick_counter[FirstLoop]))
       IN  /\ id[Blocker] \in due
           /\ id[i] \in due
           /\ \A m \in due \ {id[Blocker]} : IsReady(member_map[m].state)

\* C19: a member that is due and waiting on a step which only the blocker
\* keeps closed receives a Tick in the end, the blocker's proxy being disposed
\* and its Unregister processed; and once the blocker's record is gone it
\* never comes back.
C19_UnregisterUnblocks ==
    /\ \A i \in Remaining : [](BlockedOnlyByBlocker(i) => <>(calls[i] = 1))
    /\ [][id[Blocker] \notin DOMAIN member_map => id[Blocker] \notin DOMAIN member_map']_vars

(* ------------------------------------------------------------------ *)
(* C20: reply channel under correct use                                 *)
(* ------------------------------------------------------------------ *)

\* C20: when every proxy is only constructed and then only used through
\* wait_for_tick, a reply channel never holds more than one message, and it
\* is empty whenever the loop is about to send into it: the channel of every
\* sender collected for the current step, and the channel named by a Register
\* the loop is about to answer with SelfID.
C20_ReplyChannelFree ==
    /\ \A i \in Members : Len(chan[i]) <= 1
    /\ loop_pc[FirstLoop] = "send"
          => \A k \in 1..Len(senders[FirstLoop]) : chan[senders[FirstLoop][k]] = <<>>
    /\ (loop_pc[FirstLoop] = "drain" /\ cmdq # <<>> /\ Head(cmdq).type = "Register")
          => chan[Head(cmdq).ch] = <<>>

\* the loop is about to send a Tick to every proxy, one of which has already
\* returned from an earlier wait_for_tick
C20_Witness ==
    /\ loop_pc[FirstLoop] = "send"
    /\ Len(senders[FirstLoop]) = NMembers
    /\ \E i \in Members : calls[i] >= 1

====
